---- MODULE Spec2Model ----
(***************************************************************************)
(* GemScript front end: the tokenizer of src/lang/Token.cpp over a         *)
(* backtracking Stream, the statement parsers of src/lang/exprs/AST.cpp,   *)
(* the typecheck of exports, imports and blocks, and the entity factories  *)
(* of src/compiler/Entity.hpp.                                             *)
(*                                                                         *)
(* A source text is a sequence of one-character strings; stream offsets    *)
(* are 0-based as in the code, so the byte at offset o is s[o + 1].        *)
(***************************************************************************)
EXTENDS Naturals, Sequences, FiniteSets

VARIABLES src,      \* the source text the Stream reads
          stream,   \* the Stream: offset, last-token memo, buffered warnings
          op,       \* the operation that ran last
          args,     \* the arguments it was called with, besides the stream
          pre,      \* the Stream as it was when that operation was called
          ret,      \* what that operation returned
          given,    \* the token handed to tokenToString
          unit,     \* the UnitParser a syntax tree is typechecked in
          heap      \* the namespaces, the entities made in them and the
                    \* running call of makeEntity or makeMember

vars == <<src, stream, op, args, pre, ret, given, unit, heap>>

(***************************************************************************)
(* Character classes                                                       *)
(***************************************************************************)
\* what Stream::peek / Stream::next return at end of input ('\0')
NUL == "NUL"

SpaceCh == {" ", "\n", "\t", "\r", "\f"}

DigitCh == {"0", "1", "2", "3", "4", "5", "6", "7", "8", "9"}

\* the two non-ASCII characters of the table are bytes no modelled text holds
INVALID_IDENT_CHARS ==
    {".", ",", ";", "(", ")", "{", "}", "[", "]", "@", "`", "\\", "'", "\""}

VALID_OP_CHARS ==
    {"=", "+", "-", "/", "*", "<", ">", "!", "#", "?", "&", "|", "%", ":", "~", "^"}

PUNCTUATION == {"(", ")", "[", "]", "{", "}", ":", ";", ",", ".", "@"}

isIdentCh(ch) ==
    /\ ch \notin INVALID_IDENT_CHARS
    /\ ch \notin VALID_OP_CHARS
    /\ ch \notin SpaceCh
    /\ ch # NUL

isOpCh(ch) == ch \in VALID_OP_CHARS

(***************************************************************************)
(* Tables                                                                  *)
(***************************************************************************)
KEYWORDS ==
    [ For      |-> <<"f","o","r">>,
      While    |-> <<"w","h","i","l","e">>,
      In       |-> <<"i","n">>,
      If       |-> <<"i","f">>,
      Else     |-> <<"e","l","s","e">>,
      Try      |-> <<"t","r","y">>,
      Function |-> <<"f","u","n">>,
      Return   |-> <<"r","e","t","u","r","n">>,
      Break    |-> <<"b","r","e","a","k">>,
      Continue |-> <<"c","o","n","t","i","n","u","e">>,
      From     |-> <<"f","r","o","m">>,
      Struct   |-> <<"s","t","r","u","c","t">>,
      Decl     |-> <<"d","e","c","l">>,
      Enum     |-> <<"e","n","u","m">>,
      Extends  |-> <<"e","x","t","e","n","d","s">>,
      Required |-> <<"r","e","q","u","i","r","e","d">>,
      Get      |-> <<"g","e","t">>,
      Set      |-> <<"s","e","t">>,
      Depends  |-> <<"d","e","p","e","n","d","s">>,
      New      |-> <<"n","e","w">>,
      Const    |-> <<"c","o","n","s","t">>,
      Let      |-> <<"l","e","t">>,
      Using    |-> <<"u","s","i","n","g">>,
      Export   |-> <<"e","x","p","o","r","t">>,
      Import   |-> <<"i","m","p","o","r","t">>,
      Extern   |-> <<"e","x","t","e","r","n">>,
      As       |-> <<"a","s">>,
      Is       |-> <<"i","s">>,
      Typeof   |-> <<"t","y","p","e","o","f">>,
      True     |-> <<"t","r","u","e">>,
      False    |-> <<"f","a","l","s","e">>,
      Null     |-> <<"n","u","l","l">> ]

\* the spellings of the operator table (priority and direction are not read
\* by the tokenizer)
OPS ==
    [ Not    |-> <<"!">>,
      Mul    |-> <<"*">>,
      Div    |-> <<"/">>,
      Mod    |-> <<"%">>,
      Add    |-> <<"+">>,
      Sub    |-> <<"-">>,
      Eq     |-> <<"=","=">>,
      Neq    |-> <<"!","=">>,
      Less   |-> <<"<">>,
      Leq    |-> <<"<","=">>,
      More   |-> <<">">>,
      Meq    |-> <<">","=">>,
      And    |-> <<"&","&">>,
      Or     |-> <<"|","|">>,
      ModSeq |-> <<"%","=">>,
      DivSeq |-> <<"/","=">>,
      MulSeq |-> <<"*","=">>,
      SubSeq |-> <<"-","=">>,
      AddSeq |-> <<"+","=">>,
      Seq    |-> <<"=">>,
      Arrow  |-> <<"-",">">>,
      Farrow |-> <<"=",">">>,
      Bind   |-> <<"<","=",">">>,
      Scope  |-> <<":",":">> ]

(***************************************************************************)
(* Tokens: a tagged variant, kept in one record shape.                     *)
(*   Keyword     sub = the enumerator                                      *)
(*   Ident       str = the identifier                                      *)
(*   Lit         sub = Void | Bool | Int | Float | Str;                    *)
(*               str = a string's value or a float's lexeme;               *)
(*               num = an integer's value, or 1 / 0 for true / false       *)
(*   Op          sub = the enumerator                                      *)
(*   Punct       str = the character                                       *)
(***************************************************************************)
Tok(kind, sub, str, num) == [kind |-> kind, sub |-> sub, str |-> str, num |-> num]

NoToken == Tok("None", "", <<>>, 0)

KeywordTok(kw) == Tok("Keyword", kw, <<>>, 0)
IdentTok(id) == Tok("Ident", "", id, 0)
StrTok(lit) == Tok("Lit", "Str", lit, 0)
IntTok(n) == Tok("Lit", "Int", <<>>, n)
FloatTok(lexeme) == Tok("Lit", "Float", lexeme, 0)
BoolTok(b) == Tok("Lit", "Bool", <<>>, IF b THEN 1 ELSE 0)
VoidTok == Tok("Lit", "Void", <<>>, 0)
OpTok(o) == Tok("Op", o, <<>>, 0)
PunctTok(c) == Tok("Punct", "", <<c>>, 0)

(***************************************************************************)
(* Stream                                                                  *)
(***************************************************************************)
NewStream == [off |-> 0, last |-> NoToken, warns |-> 0]

\* Stream::peek(): the byte at the cursor, '\0' at end of input
StreamPeek(s, o) == IF o < Len(s) THEN s[o + 1] ELSE NUL

\* Stream::peek(n): the next n bytes, fewer at end of input
StreamPeekN(s, o, n) ==
    SubSeq(s, o + 1, IF o + n <= Len(s) THEN o + n ELSE Len(s))

\* Stream::next(): the cursor after it; at end of input it stays
StreamNext(s, o) == IF o < Len(s) THEN o + 1 ELSE o

StreamEof(s, o) == o >= Len(s)

\* Rollback: a frame records the offset and the diagnostics cursor of the
\* stream it is opened on. Dropped without commit() it restores both;
\* clearMessages() discards the buffered diagnostics and leaves the frame
\* uncommitted. The last-token memo is not part of the frame.
RollbackDrop(frame, st) == [st EXCEPT !.off = frame.off, !.warns = frame.warns]

\* Rollback::clearMessages
RollbackClear(frame, st) == [st EXCEPT !.warns = frame.warns]

(***************************************************************************)
(* Token::skipToNext                                                       *)
(***************************************************************************)
RECURSIVE SkipSpace(_, _)
\* while (std::isspace(stream.peek())) stream.next();
SkipSpace(s, o) ==
    IF StreamPeek(s, o) \in SpaceCh THEN SkipSpace(s, StreamNext(s, o)) ELSE o

RECURSIVE SkipLineComment(_, _)
\* while (stream.peek() && stream.next() != '\n') {}
SkipLineComment(s, o) ==
    IF StreamPeek(s, o) = NUL THEN o
    ELSE IF StreamPeek(s, o) # "\n" THEN SkipLineComment(s, StreamNext(s, o))
    ELSE StreamNext(s, o)

RECURSIVE SkipBlockComment(_, _)
\* while (stream.peek() && (stream.next() != '*' || stream.peek() != '/'))
\*     stream.next();
\* The condition consumes one byte, the body the byte after it; the loop is
\* left with the cursor after a '*' the condition read, on the '/'.
SkipBlockComment(s, o) ==
    IF StreamPeek(s, o) = NUL THEN o
    ELSE LET c == StreamPeek(s, o)
             o1 == StreamNext(s, o)
         IN IF c # "*" \/ StreamPeek(s, o1) # "/"
            THEN SkipBlockComment(s, StreamNext(s, o1))
            ELSE o1

RECURSIVE skipToNext(_, _)
skipToNext(s, o) ==
    LET o1 == SkipSpace(s, o)
    IN IF StreamPeekN(s, o1, 2) = <<"/", "/">>
       THEN skipToNext(s, SkipLineComment(s, o1))
       ELSE IF StreamPeekN(s, o1, 2) = <<"/", "*">>
       THEN skipToNext(s, SkipBlockComment(s, o1))
       ELSE o1

(***************************************************************************)
(* Token::pull(stream)                                                     *)
(***************************************************************************)
\* the switch on the escaped character: the byte appended to the literal,
\* none for an unknown escape
EscapeValue(escaped) ==
    CASE escaped = "n" -> <<"\n">>
      [] escaped = "r" -> <<"\r">>
      [] escaped = "t" -> <<"\t">>
      [] escaped = "\"" -> <<"\"">>
      [] escaped = "'" -> <<"'">>
      [] escaped = "\\" -> <<"\\">>
      [] escaped = "{" -> <<"{">>
      [] OTHER -> <<>>

KnownEscape(escaped) == escaped \in {"n", "r", "t", "\"", "'", "\\", "{"}

RECURSIVE ScanString(_, _, _, _)
\* the loop over a string literal's bytes, entered after the opening quote:
\* while (auto c = stream.next()) { ... }
ScanString(s, o, lit, warns) ==
    IF StreamEof(s, o)
    THEN [ok |-> TRUE, off |-> o, lit |-> lit, warns |-> warns]
    ELSE LET c == StreamPeek(s, o)
             o1 == StreamNext(s, o)
         IN IF c = "\\"
            THEN IF StreamEof(s, o1)
                 THEN [ok |-> FALSE, off |-> o1, lit |-> lit, warns |-> warns]
                 ELSE LET escaped == StreamPeek(s, o1)
                      IN ScanString(s, StreamNext(s, o1),
                                    lit \o EscapeValue(escaped),
                                    IF KnownEscape(escaped) THEN warns ELSE warns + 1)
            ELSE IF c = "\""
            THEN [ok |-> TRUE, off |-> o1, lit |-> lit, warns |-> warns]
            ELSE ScanString(s, o1, Append(lit, c), warns)

RECURSIVE ScanNumber(_, _, _, _)
\* the loop over a number literal: digits and at most one '.'
ScanNumber(s, o, foundDot, num) ==
    LET c == StreamPeek(s, o)
    IN IF c = NUL \/ ~(c \in DigitCh \/ (~foundDot /\ c = "."))
       THEN [off |-> o, foundDot |-> foundDot, num |-> num]
       ELSE ScanNumber(s, StreamNext(s, o), foundDot \/ c = ".", Append(num, c))

DigitValue(c) ==
    CASE c = "0" -> 0 [] c = "1" -> 1 [] c = "2" -> 2 [] c = "3" -> 3
      [] c = "4" -> 4 [] c = "5" -> 5 [] c = "6" -> 6 [] c = "7" -> 7
      [] c = "8" -> 8 [] c = "9" -> 9

RECURSIVE stoul(_)
\* std::stoul on a run of digits: its decimal value
stoul(num) ==
    IF num = <<>> THEN 0
    ELSE stoul(SubSeq(num, 1, Len(num) - 1)) * 10 + DigitValue(num[Len(num)])

\* std::stoul throws on a value beyond 64 bits: a run of up to 19 digits
\* always fits, and longer runs are beyond the texts modelled
StoulThrows(num) == Len(num) > 19

RECURSIVE ScanIdent(_, _, _)
\* while (isIdentCh(stream.peek())) ident += stream.next();
ScanIdent(s, o, ident) ==
    IF isIdentCh(StreamPeek(s, o))
    THEN ScanIdent(s, StreamNext(s, o), Append(ident, StreamPeek(s, o)))
    ELSE [off |-> o, ident |-> ident]

RECURSIVE ScanOp(_, _, _)
\* while (isOpCh(stream.peek())) maybeOp += stream.next();
ScanOp(s, o, maybeOp) ==
    IF isOpCh(StreamPeek(s, o))
    THEN ScanOp(s, StreamNext(s, o), Append(maybeOp, StreamPeek(s, o)))
    ELSE [off |-> o, maybeOp |-> maybeOp]

\* lang::isIdent
isIdent(ident) ==
    /\ Len(ident) > 0
    /\ ident[1] \notin DigitCh
    /\ \A i \in 1..Len(ident) : isIdentCh(ident[i])
    /\ \A kw \in DOMAIN KEYWORDS : KEYWORDS[kw] # ident

\* an AST node, as far as the properties stated below read it: its variant, a
\* string member (ImportExpr::from, DebugExpr::what) and a list member (an
\* identifier's path, ImportExpr::imports)
Node(tag, str, list) == [tag |-> tag, str |-> str, list |-> list]

NoNode == Node("None", <<>>, <<>>)

\* a result: ok (Ok / Err), the value of an Ok (a token, a bool or a node) and
\* the stream as the call leaves it
Result(ok, tok, val, node, st) ==
    [ok |-> ok, tok |-> tok, val |-> val, node |-> node, st |-> st]

Res(ok, tok, st) == Result(ok, tok, FALSE, NoNode, st)

Err(st) == Result(FALSE, NoToken, FALSE, NoNode, st)

\* Ok(bool)
OkBool(val, st) == Result(TRUE, NoToken, val, NoNode, st)

\* rb.commit<T>(...)
Commit(node, st) == Result(TRUE, NoToken, FALSE, node, st)

\* a value computed once and read under a name: auto x = ...;
With(x, K(_)) == K(x)

\* GEODE_UNWRAP, GEODE_UNWRAP_INTO: an Err leaves the function
Unwrap(r, K(_)) == IF r.ok THEN K(r) ELSE Err(r.st)

\* Rollback rb(stream): what the frame records
Frame(st) == [off |-> st.off, warns |-> st.warns]

\* leaving a function on an Err, its frame rb uncommitted: ~Rollback
Scoped(rb, r) == IF r.ok THEN r ELSE Err(RollbackDrop(rb, r.st))

\* the lambda done: rb.commit(); stream.setLastToken(tk); return Ok(tk);
PullDone(st, o, warns, tk) ==
    Res(TRUE, tk, [off |-> o, last |-> tk, warns |-> warns])

\* rb.error(...) / rb.errorLastToken(...): the frame is dropped uncommitted
PullError(frame, st) == Res(FALSE, NoToken, RollbackDrop(frame, st))

\* the string-literal branch, the cursor on the opening quote
PullString(s, st, frame) ==
    With(ScanString(s, StreamNext(s, frame.off), <<>>, st.warns), LAMBDA r :
      IF r.ok
      THEN PullDone(st, r.off, r.warns, StrTok(r.lit))
      ELSE PullError(frame, [st EXCEPT !.off = r.off, !.warns = r.warns]))

\* the number-literal branch
PullNumber(s, st, frame) ==
    With(ScanNumber(s, frame.off, FALSE, <<>>), LAMBDA r :
      IF r.foundDot
      THEN PullDone(st, r.off, st.warns, FloatTok(r.num))
      ELSE IF StoulThrows(r.num)
      THEN PullError(frame, [st EXCEPT !.off = r.off])
      ELSE PullDone(st, r.off, st.warns, IntTok(stoul(r.num))))

\* PullOperator with the punctuation looked for before the operator table
PullOperatorPunctFirst(s, st, frame) ==
    With(ScanOp(s, frame.off, <<>>), LAMBDA r :
      IF StreamPeek(s, frame.off) \in PUNCTUATION
      THEN PullDone(st, frame.off + 1, st.warns, PunctTok(StreamPeek(s, frame.off)))
      ELSE IF \E o \in DOMAIN OPS : OPS[o] = r.maybeOp
      THEN PullDone(st, r.off, st.warns,
                    OpTok(CHOOSE o \in DOMAIN OPS : OPS[o] = r.maybeOp))
      ELSE PullError(frame, [st EXCEPT !.off = r.off]))

\* the branch taken when no identifier byte is at the cursor: an operator of
\* the table, else one punctuation byte, else an error
PullOperator(s, st, frame) ==
    With(ScanOp(s, frame.off, <<>>), LAMBDA r :
      IF \E o \in DOMAIN OPS : OPS[o] = r.maybeOp
      THEN PullDone(st, r.off, st.warns,
                    OpTok(CHOOSE o \in DOMAIN OPS : OPS[o] = r.maybeOp))
      ELSE IF StreamPeek(s, frame.off) \in PUNCTUATION
      THEN PullDone(st, frame.off + 1, st.warns, PunctTok(StreamPeek(s, frame.off)))
      ELSE PullError(frame, [st EXCEPT !.off = r.off]))

\* PullWord with the keyword table searched before the special literals
PullWordKeywordsFirst(s, st, frame, r) ==
    IF \E kw \in DOMAIN KEYWORDS : KEYWORDS[kw] = r.ident
    THEN PullDone(st, r.off, st.warns,
                  KeywordTok(CHOOSE kw \in DOMAIN KEYWORDS : KEYWORDS[kw] = r.ident))
    ELSE IF r.ident = <<"v","o","i","d">> THEN PullDone(st, r.off, st.warns, VoidTok)
    ELSE IF isIdent(r.ident) THEN PullDone(st, r.off, st.warns, IdentTok(r.ident))
    ELSE PullError(frame, [st EXCEPT !.off = r.off])

\* the branch for a non-empty run of identifier bytes
PullWord(s, st, frame, r) ==
    IF r.ident = <<"t","r","u","e">> THEN PullDone(st, r.off, st.warns, BoolTok(TRUE))
    ELSE IF r.ident = <<"f","a","l","s","e">> THEN PullDone(st, r.off, st.warns, BoolTok(FALSE))
    ELSE IF r.ident = <<"v","o","i","d">> THEN PullDone(st, r.off, st.warns, VoidTok)
    ELSE IF \E kw \in DOMAIN KEYWORDS : KEYWORDS[kw] = r.ident
    THEN PullDone(st, r.off, st.warns,
                  KeywordTok(CHOOSE kw \in DOMAIN KEYWORDS : KEYWORDS[kw] = r.ident))
    ELSE IF isIdent(r.ident) THEN PullDone(st, r.off, st.warns, IdentTok(r.ident))
    ELSE PullError(frame, [st EXCEPT !.off = r.off])

\* the rollback frame Token::pull opens, after skipToNext
PullFrame(s, st) == [off |-> skipToNext(s, st.off), warns |-> st.warns]

\* Token::pull from where its frame is opened: st is the stream there
PullFrom(s, st, frame) ==
    IF StreamEof(s, frame.off) THEN PullError(frame, st)
    ELSE IF StreamPeek(s, frame.off) = "\"" THEN PullString(s, st, frame)
    ELSE IF StreamPeek(s, frame.off) \in DigitCh THEN PullNumber(s, st, frame)
    ELSE With(ScanIdent(s, frame.off, <<>>), LAMBDA r :
           IF r.ident = <<>> THEN PullOperator(s, st, frame)
           ELSE PullWord(s, st, frame, r))

\* ParseResult<Token> Token::pull(Stream&)
TokenPull(s, st) ==
    With(PullFrame(s, st), LAMBDA frame :
      PullFrom(s, [st EXCEPT !.off = frame.off], frame))

RECURSIVE PeekLoop(_, _, _)
\* the loop of Token::peek: offset tokens are pulled and dropped
PeekLoop(s, st, offset) ==
    IF offset = 0 THEN Res(TRUE, NoToken, st)
    ELSE With(TokenPull(s, st), LAMBDA r :
           IF ~r.ok THEN r ELSE PeekLoop(s, r.st, offset - 1))

\* PeekReturn with the frame committed instead of cleared
PeekReturnCommits(frame, st) == st

\* the returns of Token::peek: rb.clearMessages(), and the frame rb, never
\* committed, is dropped on leaving the function
PeekReturn(frame, st) == RollbackDrop(frame, RollbackClear(frame, st))

\* Option<Token> Token::peek(Stream&, size_t offset)
TokenPeek(s, st, offset) ==
    With(PeekLoop(s, st, offset), LAMBDA skipped :
      IF ~skipped.ok
      THEN Res(FALSE, NoToken, PeekReturn(Frame(st), skipped.st))
      ELSE With(TokenPull(s, skipped.st), LAMBDA tk :
             Res(tk.ok, tk.tok, PeekReturn(Frame(st), tk.st))))

(***************************************************************************)
(* The typed helpers of Token (declared in Token.hpp)                      *)
(***************************************************************************)
\* Token::pull(kind, stream): expect-or-error, under a frame of its own
PullTok(s, st, tk) ==
    With(TokenPull(s, st), LAMBDA r :
      IF r.ok /\ r.tok = tk THEN r ELSE Err(RollbackDrop(Frame(st), r.st)))

\* Token::draw(kind, stream): consume if the next token matches, else leave
\* the stream where it was
DrawTok(s, st, tk) ==
    With(PullTok(s, st, tk), LAMBDA r : OkBool(r.ok, r.st))

\* Token::peek(kind, stream): is the next token this one
PeekTok(s, st, tk) ==
    With(TokenPeek(s, st, 0), LAMBDA r : OkBool(r.ok /\ r.tok = tk, r.st))

\* Token::pull<Lit>(stream), Token::pull<Ident>(stream): a token of the variant
PullKind(s, st, kind) ==
    With(TokenPull(s, st), LAMBDA r :
      IF r.ok /\ r.tok.kind = kind THEN r ELSE Err(RollbackDrop(Frame(st), r.st)))

(***************************************************************************)
(* Token::pullSemicolons, Token::pullSeparator                             *)
(***************************************************************************)
RECURSIVE DrawAll(_, _, _)
\* while (Token::draw(';', stream)) {} rb.commit(); return Ok();
DrawAll(s, st, tk) ==
    With(DrawTok(s, st, tk), LAMBDA r :
      IF r.val THEN DrawAll(s, r.st, tk) ELSE OkBool(FALSE, r.st))

\* SemicolonsOptional reading the memo for the wrong punctuation
SemicolonsOptionalAfterSemicolon(st) == st.last = PunctTok(";")

\* does Token::pullSemicolons take the branch where semicolons are optional
SemicolonsOptional(st) == st.last = PunctTok("}")

\* ParseResult<> Token::pullSemicolons(Stream&)
pullSemicolons(s, st) ==
    Scoped(Frame(st),
      IF SemicolonsOptional(st)
      THEN DrawAll(s, st, PunctTok(";"))
      ELSE Unwrap(PullTok(s, st, PunctTok(";")), LAMBDA r :
             DrawAll(s, r.st, PunctTok(";"))))

\* pullSeparator without the look for the bracket after a separator
pullSeparatorNoTrailing(s, st, separator, bracket) ==
    With(PeekTok(s, st, PunctTok(bracket)), LAMBDA p1 :
      IF p1.val THEN OkBool(TRUE, p1.st)
      ELSE Unwrap(PullTok(s, p1.st, PunctTok(separator)), LAMBDA r :
             OkBool(FALSE, r.st)))

\* ParseResult<bool> Token::pullSeparator(char separator, char bracket, Stream&)
pullSeparator(s, st, separator, bracket) ==
    With(PeekTok(s, st, PunctTok(bracket)), LAMBDA p1 :
      IF p1.val THEN OkBool(TRUE, p1.st)
      ELSE Unwrap(PullTok(s, p1.st, PunctTok(separator)), LAMBDA r :
             With(PeekTok(s, r.st, PunctTok(bracket)), LAMBDA p2 :
               OkBool(p2.val, p2.st))))

(***************************************************************************)
(* The parsers of AST.cpp. Each opens a Rollback frame rb on entry; a      *)
(* GEODE_UNWRAP that fails, and rb.error, leave the function with rb       *)
(* uncommitted, which restores the stream; rb.commit<T>() keeps it.        *)
(***************************************************************************)
RECURSIVE ExprPull(_, _)
RECURSIVE PrimaryPull(_, _)
RECURSIVE BinopTail(_, _)
RECURSIVE ListExprPull(_, _)
RECURSIVE ListLoop(_, _)
RECURSIVE BlockExprPull(_, _)
RECURSIVE ReturnExprPull(_, _)
RECURSIVE ExportExprPull(_, _)

RECURSIVE IdentTail(_, _, _)
\* ( '::' ident )*
IdentTail(s, st, path) ==
    With(DrawTok(s, st, OpTok("Scope")), LAMBDA d :
      IF ~d.val THEN Commit(Node("Ident", <<>>, path), d.st)
      ELSE Unwrap(PullKind(s, d.st, "Ident"), LAMBDA r :
             IdentTail(s, r.st, Append(path, r.tok.str))))

\* IdentExpr::pull: ident ( '::' ident )*
IdentExprPull(s, st) ==
    Scoped(Frame(st),
      Unwrap(PullKind(s, st, "Ident"), LAMBDA r :
        IdentTail(s, r.st, <<r.tok.str>>)))

RECURSIVE ImportLoop(_, _, _)
\* the while (true) of ImportExpr::pull: an identifier, then a separator,
\* until pullSeparator says the list has ended
ImportLoop(s, st, imports) ==
    Unwrap(IdentExprPull(s, st), LAMBDA ident :
      Unwrap(pullSeparator(s, ident.st, ",", "}"), LAMBDA brk :
        IF brk.val
        THEN Commit(Node("Imports", <<>>, Append(imports, ident.node.list)), brk.st)
        ELSE ImportLoop(s, brk.st, Append(imports, ident.node.list))))

\* the braced list of ImportExpr::pull, entered when Token::pull('*') failed:
\* rb.clearMessages(), '{', the names, '}'
ImportNames(s, st, rb) ==
    Unwrap(PullTok(s, RollbackClear(rb, st), PunctTok("{")), LAMBDA open :
      Unwrap(ImportLoop(s, open.st, <<>>), LAMBDA l :
        Unwrap(PullTok(s, l.st, PunctTok("}")), LAMBDA close :
          Commit(l.node, close.st))))

\* what ImportExpr::pull takes for `*`: Token::pull('*', stream), a
\* punctuation token
ImportStar == PunctTok("*")

\* `*` or the braced list
ImportList(s, st, rb) ==
    With(PullTok(s, st, ImportStar), LAMBDA star :
      IF star.ok THEN Commit(Node("Imports", <<>>, <<>>), star.st)
      ELSE ImportNames(s, star.st, rb))

\* a string literal under the frame litrb
PullStrLit(s, st) ==
    Unwrap(PullKind(s, st, "Lit"), LAMBDA lit :
      IF lit.tok.sub # "Str" THEN Err(RollbackDrop(Frame(st), lit.st)) ELSE lit)

\* ExprResult<ImportExpr> ImportExpr::pull(Stream&)
ImportExprPull(s, st) ==
    Scoped(Frame(st),
      Unwrap(PullTok(s, st, KeywordTok("Import")), LAMBDA kw :
        Unwrap(ImportList(s, kw.st, Frame(st)), LAMBDA names :
          Unwrap(PullTok(s, names.st, KeywordTok("From")), LAMBDA from :
            Unwrap(PullStrLit(s, from.st), LAMBDA lit :
              Commit(Node("Import", lit.tok.str, names.node.list), lit.st))))))

\* the operators Expr::pull takes between two operands: all but the unary `!`
BinaryOps == DOMAIN OPS \ {"Not"}

\* lang::isUnOp
isUnOp(o) == o \in {"Add", "Sub", "Not"}

\* '(' expr ')'
ParenPull(s, st) ==
    Unwrap(PullTok(s, st, PunctTok("(")), LAMBDA open :
      Unwrap(ExprPull(s, open.st), LAMBDA e :
        Unwrap(PullTok(s, e.st, PunctTok(")")), LAMBDA close :
          Commit(Node("Paren", <<>>, <<>>), close.st))))

\* unary primary
UnOpPull(s, st, tk) ==
    Unwrap(PullTok(s, st, tk), LAMBDA o :
      Unwrap(PrimaryPull(s, o.st), LAMBDA e :
        Commit(Node("UnOp", <<>>, <<>>), e.st)))

\* a literal
LitPull(s, st) ==
    Unwrap(PullKind(s, st, "Lit"), LAMBDA lit : Commit(Node("Lit", <<>>, <<>>), lit.st))

\* the production the next token tk selects
PrimaryOf(s, st, tk) ==
    IF tk = KeywordTok("Import") THEN ImportExprPull(s, st)
    ELSE IF tk = KeywordTok("Export") THEN ExportExprPull(s, st)
    ELSE IF tk = KeywordTok("Return") THEN ReturnExprPull(s, st)
    ELSE IF tk = PunctTok("{") THEN BlockExprPull(s, st)
    ELSE IF tk = PunctTok("(") THEN ParenPull(s, st)
    ELSE IF tk.kind = "Lit" THEN LitPull(s, st)
    ELSE IF tk.kind = "Ident" THEN IdentExprPull(s, st)
    ELSE IF tk.kind = "Op" /\ isUnOp(tk.sub) THEN UnOpPull(s, st, tk)
    ELSE Err(st)

\* primary : literal | ident-chain | '(' expr ')' | unary primary
\*         | block | return | import | export
\* chosen by the next token
PrimaryPull(s, st) ==
    Unwrap(TokenPeek(s, st, 0), LAMBDA pk : PrimaryOf(s, pk.st, pk.tok))

\* ( binop primary )*: precedence climbing orders the operands into a tree and
\* consumes the same tokens
BinopTail(s, st) ==
    With(TokenPeek(s, st, 0), LAMBDA pk :
      IF ~(pk.ok /\ pk.tok.kind = "Op" /\ pk.tok.sub \in BinaryOps)
      THEN Commit(Node("Expr", <<>>, <<>>), pk.st)
      ELSE Unwrap(PullTok(s, pk.st, pk.tok), LAMBDA o :
             Unwrap(PrimaryPull(s, o.st), LAMBDA rhs : BinopTail(s, rhs.st))))

\* Expr::pull
ExprPull(s, st) ==
    Scoped(Frame(st),
      Unwrap(PrimaryPull(s, st), LAMBDA p : BinopTail(s, p.st)))

\* ExprResult<ExportExpr> ExportExpr::pull(Stream&)
ExportExprPull(s, st) ==
    Scoped(Frame(st),
      Unwrap(PullTok(s, st, KeywordTok("Export")), LAMBDA kw :
        Unwrap(ExprPull(s, kw.st), LAMBDA expr :
          Commit(Node("Export", <<>>, <<>>), expr.st))))

\* if (!Token::peek(stream) || Token::peek('}', stream)) break;
ListEnds(s, st) ==
    With(TokenPeek(s, st, 0), LAMBDA any :
      IF ~any.ok THEN OkBool(TRUE, any.st) ELSE PeekTok(s, any.st, PunctTok("}")))

\* if (!Token::pullSemicolons(stream) && !Token::peek('}', stream))
\*     return rb.error("Expected semicolon");
ListSeparator(s, st) ==
    With(pullSemicolons(s, st), LAMBDA semi :
      IF semi.ok THEN semi
      ELSE With(PeekTok(s, semi.st, PunctTok("}")), LAMBDA closing :
             IF closing.val THEN closing ELSE Err(closing.st)))

\* the while (true) of ListExpr::pull
ListLoop(s, st) ==
    Unwrap(ExprPull(s, st), LAMBDA expr :
      Unwrap(ListSeparator(s, expr.st), LAMBDA sep :
        With(ListEnds(s, sep.st), LAMBDA end :
          IF end.val THEN Commit(Node("List", <<>>, <<>>), end.st)
          ELSE ListLoop(s, end.st))))

\* ExprResult<ListExpr> ListExpr::pull(Stream&)
ListExprPull(s, st) ==
    Scoped(Frame(st),
      With(PeekTok(s, st, PunctTok("}")), LAMBDA empty :
        IF empty.val THEN Commit(Node("List", <<>>, <<>>), empty.st)
        ELSE ListLoop(s, empty.st)))

\* if (!Token::peek(';', stream)) GEODE_UNWRAP_INTO(expr, Expr::pull(stream));
ReturnValue(s, st) ==
    With(PeekTok(s, st, PunctTok(";")), LAMBDA semi :
      IF semi.val THEN Commit(NoNode, semi.st) ELSE ExprPull(s, semi.st))

\* if (Token::draw(Keyword::From, stream))
\*     GEODE_UNWRAP_INTO(from, IdentExpr::pull(stream));
ReturnFrom(s, st) ==
    With(DrawTok(s, st, KeywordTok("From")), LAMBDA d :
      IF d.val THEN IdentExprPull(s, d.st) ELSE Commit(NoNode, d.st))

\* ExprResult<ReturnExpr> ReturnExpr::pull(Stream&)
ReturnExprPull(s, st) ==
    Scoped(Frame(st),
      Unwrap(PullTok(s, st, KeywordTok("Return")), LAMBDA kw :
        Unwrap(ReturnValue(s, kw.st), LAMBDA expr :
          Unwrap(ReturnFrom(s, expr.st), LAMBDA from :
            Commit(Node("Return", <<>>, <<>>), from.st)))))

\* ExprResult<BlockExpr> BlockExpr::pull(Stream&)
BlockExprPull(s, st) ==
    Scoped(Frame(st),
      Unwrap(PullTok(s, st, PunctTok("{")), LAMBDA open :
        Unwrap(ListExprPull(s, open.st), LAMBDA expr :
          Unwrap(PullTok(s, expr.st, PunctTok("}")), LAMBDA close :
            Commit(Node("Block", <<>>, <<>>), close.st)))))

\* the optional value of AttrExpr::pull: '(' expr ')'
AttrValue(s, st) ==
    With(DrawTok(s, st, PunctTok("(")), LAMBDA d :
      IF ~d.val THEN Commit(NoNode, d.st)
      ELSE Unwrap(ExprPull(s, d.st), LAMBDA value :
             Unwrap(PullTok(s, value.st, PunctTok(")")), LAMBDA close :
               Commit(value.node, close.st))))

\* ExprResult<AttrExpr> AttrExpr::pull(Stream&)
AttrExprPull(s, st) ==
    Scoped(Frame(st),
      Unwrap(PullTok(s, st, PunctTok("@")), LAMBDA at :
        Unwrap(IdentExprPull(s, at.st), LAMBDA ident :
          Unwrap(AttrValue(s, ident.st), LAMBDA value :
            Commit(Node("Attr", <<>>, ident.node.list), value.st)))))

\* the identifier of DebugExpr::pull: if (ident != "debug") return rb.error(...)
DebugIdent(s, st) ==
    Unwrap(PullKind(s, st, "Ident"), LAMBDA ident :
      IF ident.tok.str # <<"d","e","b","u","g">> THEN Err(ident.st) ELSE ident)

\* ExprResult<DebugExpr> DebugExpr::pull(Stream&)
DebugExprPull(s, st) ==
    Scoped(Frame(st),
      Unwrap(PullTok(s, st, PunctTok("@")), LAMBDA at :
        Unwrap(PullTok(s, at.st, OpTok("Not")), LAMBDA bang :
          Unwrap(DebugIdent(s, bang.st), LAMBDA ident :
            Unwrap(PullTok(s, ident.st, PunctTok("(")), LAMBDA open :
              Unwrap(PullStrLit(s, open.st), LAMBDA lit :
                Unwrap(PullTok(s, lit.st, PunctTok(")")), LAMBDA close :
                  Commit(Node("Debug", lit.tok.str, <<>>), close.st))))))))

RECURSIVE ASTLoop(_, _)
\* the while (true) of AST::pull
ASTLoop(s, st) ==
    Unwrap(ExprPull(s, st), LAMBDA expr :
      Unwrap(pullSemicolons(s, expr.st), LAMBDA semi :
        With(TokenPeek(s, semi.st, 0), LAMBDA any :
          IF ~any.ok THEN Commit(Node("AST", <<>>, <<>>), any.st)
          ELSE ASTLoop(s, any.st))))

\* the rollback frame AST::pull opens, after skipToNext
ASTFrame(s, st) == [off |-> skipToNext(s, st.off), warns |-> st.warns]

\* ExprResult<AST> AST::pull(Stream&)
ASTPull(s, st) ==
    With(ASTFrame(s, st), LAMBDA rb :
      Scoped(rb, ASTLoop(s, [st EXCEPT !.off = rb.off])))

(***************************************************************************)
(* tokenToString(..., debug = false)                                       *)
(***************************************************************************)
DigitChar(d) ==
    CASE d = 0 -> "0" [] d = 1 -> "1" [] d = 2 -> "2" [] d = 3 -> "3"
      [] d = 4 -> "4" [] d = 5 -> "5" [] d = 6 -> "6" [] d = 7 -> "7"
      [] d = 8 -> "8" [] d = 9 -> "9"

RECURSIVE numToString(_)
\* geode::utils::numToString on an integer: its decimal digits
numToString(n) ==
    IF n < 10 THEN <<DigitChar(n)>>
    ELSE Append(numToString(n \div 10), DigitChar(n % 10))

\* tokenToString(Lit, false); a float's text is numToString's and not modelled
LitToString(tk) ==
    CASE tk.sub = "Void" -> <<"v","o","i","d">>
      [] tk.sub = "Bool" -> IF tk.num = 1 THEN <<"t","r","u","e">>
                            ELSE <<"f","a","l","s","e">>
      [] tk.sub = "Str" -> tk.str
      [] tk.sub = "Int" -> numToString(tk.num)

\* Token::toString(false): the overload of tokenToString of the variant
tokenToString(tk) ==
    CASE tk.kind = "Keyword" -> KEYWORDS[tk.sub]
      [] tk.kind = "Ident" -> tk.str
      [] tk.kind = "Lit" -> LitToString(tk)
      [] tk.kind = "Op" -> OPS[tk.sub]
      [] tk.kind = "Punct" -> tk.str

(***************************************************************************)
(* Typechecking: the UnitParser and the typecheck of the nodes of AST.cpp  *)
(***************************************************************************)
\* a syntax tree: the variant, a declared name, the children
Expr(tag, name, kids) == [tag |-> tag, name |-> name, kids |-> kids]

NoExpr == Expr("None", "", <<>>)

\* an entity: its name and a key that tells entities of one name apart (0 for
\* a declaration of the unit, its place among the exports for an export of
\* another source)
Ent(name, key) == [name |-> name, key |-> key]

\* the sources SrcFile::from finds, each with the exports of its ParsedSrc in
\* the order getAllExported gives them: none, for a unit that imports nothing
NoFiles == [path \in {} |-> <<>>]

\* a UnitParser on a tree: the scope stack (the entities each scope holds, in
\* the order they were pushed), the exports of its ParsedSrc, the errors
\* reported, the calls of addExported made so far, each with what
\* isRootScope() was at the call, the sources it can import, and the imports
\* made so far, each with the entities selected and the current scope before
\* and after, and every typecheck of an expression that has returned, with
\* the depth of the scope stack when it was called and when it returned
NewUnit(ast) ==
    [ast |-> ast, scopes |-> << <<>> >>, exports |-> {}, errors |-> <<>>,
     calls |-> <<>>, files |-> NoFiles, imported |-> <<>>, visits |-> <<>>]

NoUnit == NewUnit(NoExpr)

\* UnitParser::isRootScope
isRootScope(u) == Len(u.scopes) = 1

\* UnitParser::pushScope
pushScope(u) == [u EXCEPT !.scopes = Append(@, <<>>)]

\* UnitParser::popScope
popScope(u) == [u EXCEPT !.scopes = SubSeq(@, 1, Len(@) - 1)]

\* UnitParser::error
ReportError(u, msg) == [u EXCEPT !.errors = Append(@, msg)]

\* ParsedSrc::addExported: deduplicates by full path
addExported(u, ent) ==
    [u EXCEPT !.exports = @ \cup {ent},
              !.calls = Append(@, [name |-> ent, root |-> isRootScope(u)])]

\* the current scope
CurrentScope(u) == u.scopes[Len(u.scopes)]

\* UnitParser::getEntity(name, true): is an entity of that name in the current
\* scope
getEntity(u, name) ==
    \E i \in DOMAIN CurrentScope(u) : CurrentScope(u)[i].name = name

\* UnitParser::push: the entity is appended to the current scope
push(u, ent) == [u EXCEPT !.scopes[Len(u.scopes)] = Append(@, ent)]

\* a declaration registers its entity in the current scope, unless the name
\* is taken there
DeclTypecheck(e, u) ==
    IF getEntity(u, e.name)
    THEN ReportError(u, "already exists in this scope")
    ELSE push(u, Ent(e.name, 0))

RECURSIVE Typecheck(_, _)
RECURSIVE TypecheckAll(_, _)

\* Expr::typecheckEntity: the entity an expression declares, if it declares
\* one ("" for none), and the UnitParser after typechecking it
typecheckEntity(e, u) ==
    IF e.tag = "Decl"
    THEN With(DeclTypecheck(e, u), LAMBDA u1 :
           [ent |-> IF Len(u1.errors) = Len(u.errors) THEN e.name ELSE "", u |-> u1])
    ELSE [ent |-> "", u |-> Typecheck(e, u)]

\* the branch of ExportExpr::typecheck for an expression that is no entity
NotExportable(u) ==
    With(ReportError(u, "Only declarations are exportable"), LAMBDA u1 :
      IF ~isRootScope(u1)
      THEN ReportError(u1, "Export statements may only appear at top-level")
      ELSE u1)

\* Type ExportExpr::typecheck(UnitParser&) const
ExportExprTypecheck(e, u) ==
    With(typecheckEntity(e.kids[1], u), LAMBDA r :
      IF r.ent # "" THEN addExported(r.u, r.ent) ELSE NotExportable(r.u))

\* the error ImportExpr::typecheck reports for a name that is taken
AlreadyExists == "Entity already exists in this scope"

RECURSIVE SelectImports(_, _, _, _)
\* for (auto& i : imports): parsed->getExported(path), the first export of
\* that name, is selected, or an error is reported
SelectImports(names, exported, u, selected) ==
    IF names = <<>> THEN [selected |-> selected, u |-> u]
    ELSE IF \E k \in DOMAIN exported : exported[k].name = Head(names).name
    THEN SelectImports(Tail(names), exported, u,
           Append(selected,
                  exported[CHOOSE k \in DOMAIN exported :
                             /\ exported[k].name = Head(names).name
                             /\ \A j \in 1..(k - 1) :
                                    exported[j].name # Head(names).name]))
    ELSE SelectImports(Tail(names), exported, ReportError(u, "Type not found"),
                       selected)

\* Vec<Entity> imported: everything exported when no name is given
ImportSelection(e, exported, u) ==
    IF e.kids = <<>> THEN [selected |-> exported, u |-> u]
    ELSE SelectImports(e.kids, exported, u, <<>>)

RECURSIVE PushImportsUnchecked(_, _)
\* PushImports without the lookup in the current scope
PushImportsUnchecked(selected, u) ==
    IF selected = <<>> THEN u
    ELSE PushImportsUnchecked(Tail(selected), push(u, Head(selected)))

RECURSIVE PushImports(_, _)
\* for (auto& ent : imported): an error if the name is in the current scope,
\* else state.push(ent)
PushImports(selected, u) ==
    IF selected = <<>> THEN u
    ELSE PushImports(Tail(selected),
           IF getEntity(u, Head(selected).name)
           THEN ReportError(u, AlreadyExists)
           ELSE push(u, Head(selected)))

\* the import is noted with the current scope before and after it
NoteImport(u, selected, u1) ==
    [u1 EXCEPT !.imported =
        Append(@, [selected |-> selected, before |-> CurrentScope(u),
                   after |-> CurrentScope(u1),
                   errors |-> SubSeq(u1.errors, Len(u.errors) + 1, Len(u1.errors))])]

\* Type ImportExpr::typecheck(UnitParser&) const
ImportExprTypecheck(e, u) ==
    IF e.name \notin DOMAIN u.files
    THEN ReportError(u, "file not found")
    ELSE With(ImportSelection(e, u.files[e.name], u), LAMBDA sel :
           NoteImport(sel.u, sel.selected, PushImports(sel.selected, sel.u)))

\* for (auto& expr : exprs) expr->typecheck(state);
TypecheckAll(exprs, u) ==
    IF exprs = <<>> THEN u ELSE TypecheckAll(Tail(exprs), Typecheck(Head(exprs), u))

\* Type ListExpr::typecheck(UnitParser&) const
ListExprTypecheck(e, u) == TypecheckAll(e.kids, u)

\* BlockExprTypecheck without state.popScope()
BlockExprTypecheckNoPop(e, u) == Typecheck(e.kids[1], pushScope(u))

\* Type BlockExpr::typecheck(UnitParser&) const
BlockExprTypecheck(e, u) == popScope(Typecheck(e.kids[1], pushScope(u)))

\* Type AST::typecheck(UnitParser&) const
ASTTypecheck(e, u) == TypecheckAll(e.kids, u)

\* a typecheck that was called in u has returned in u1
NoteVisit(e, u, u1) ==
    [u1 EXCEPT !.visits = Append(@, [tag |-> e.tag, before |-> Len(u.scopes),
                                     after |-> Len(u1.scopes)])]

\* Expr::typecheck, dispatched on the variant
Typecheck(e, u) ==
    NoteVisit(e, u,
    CASE e.tag = "Decl" -> DeclTypecheck(e, u)
      [] e.tag = "Lit" -> u
      [] e.tag = "Export" -> ExportExprTypecheck(e, u)
      [] e.tag = "Import" -> ImportExprTypecheck(e, u)
      [] e.tag = "List" -> ListExprTypecheck(e, u)
      [] e.tag = "Block" -> BlockExprTypecheck(e, u)
      [] e.tag = "AST" -> ASTTypecheck(e, u))

(***************************************************************************)
(* Namespace::makeEntity, Class::makeMember (src/compiler/Entity.hpp)      *)
(***************************************************************************)
\* the namespaces entities are made in: a Namespace and a Class, which is a
\* Namespace too
NamespaceIds == {"root", "cls"}

\* the namespaces that are a Class: makeMember is theirs
ClassIds == {"cls"}

EntityNames == {"x", "y"}

\* the classes T entities are made of: Variable keeps the empty
\* Entity::applyTypeDefinition, Class overrides it
EntityClasses == {"Variable", "Class"}

\* no call is running
NoCall == [fn |-> "", self |-> "", name |-> "", entity |-> 0, done |-> 0]

\* m_entities of every namespace (name -> the entities, in the order pushed),
\* the type handles the hooks registered, the entities constructed (each with
\* its m_namespace, m_name and class), every run of applyTypeDefinition with
\* whether its entity was in m_entities then, the running call with how
\* many of its steps are done, and the call that returned last
NewHeap ==
    [m_entities |-> [ns \in NamespaceIds |-> [name \in EntityNames |-> <<>>]],
     types |-> {},
     objs |-> <<>>,
     hooks |-> <<>>,
     call |-> NoCall,
     returned |-> NoCall]

\* the statements of makeEntity with the hook called after the insertion
MakeEntityStepsHookLast ==
    <<"make_shared", "pushEntity", "applyTypeDefinition", "return">>

\* the statements of Namespace::makeEntity, in order
MakeEntitySteps == <<"make_shared", "applyTypeDefinition", "pushEntity", "return">>

\* the statements of Class::makeMember, in order
MakeMemberSteps == <<"make_shared", "pushEntity", "return">>

\* the statements of the function that is running
StepsOf(fn) == IF fn = "Class::makeMember" THEN MakeMemberSteps ELSE MakeEntitySteps

\* the statement the running call executes next
NextStep(h) == StepsOf(h.call.fn)[h.call.done + 1]

\* is the entity in m_entities of the namespace, under any name
InNamespace(h, ns, entity) ==
    \E name \in EntityNames :
        \E i \in DOMAIN h.m_entities[ns][name] : h.m_entities[ns][name][i] = entity

\* std::make_shared<T>(shared_from_this(), name, args...): Entity::Entity keeps
\* the container and the name
make_shared(h, fn, self, name, class) ==
    [h EXCEPT !.objs = Append(@, [m_namespace |-> self, m_name |-> name,
                                  class |-> class]),
              !.call = [fn |-> fn, self |-> self, name |-> name,
                        entity |-> Len(h.objs) + 1, done |-> 1]]

\* entity->applyTypeDefinition(): Class registers its type handle into the
\* namespace, any other entity does nothing
applyTypeDefinition(h) ==
    [h EXCEPT !.types = IF h.objs[h.call.entity].class = "Class"
                        THEN @ \cup {<<h.call.self, h.call.name>>} ELSE @,
              !.hooks = Append(@, [entity |-> h.call.entity, fn |-> h.call.fn,
                                   present |-> InNamespace(h, h.call.self,
                                                           h.call.entity)]),
              !.call.done = @ + 1]

\* Namespace::pushEntity(name, entity): appends
pushEntity(h) ==
    [h EXCEPT !.m_entities[h.call.self][h.call.name] = Append(@, h.call.entity),
              !.call.done = @ + 1]

(***************************************************************************)
(* Syntax trees                                                            *)
(***************************************************************************)
\* how deep expressions nest
MaxDepth == 2

\* how many statements a list holds
MaxStmts == 2

\* the statements that open a list: a declaration or a literal
FlatExprs == {Expr("Decl", "x", <<>>), Expr("Lit", "", <<>>)}

ListPrefixes == UNION {[1..k -> FlatExprs] : k \in 0..(MaxStmts - 1)}

RECURSIVE Exprs(_)
\* expressions nested at most d deep: an export of one, or a block ending in
\* one
Exprs(d) ==
    IF d = 0 THEN FlatExprs
    ELSE LET E == Exprs(d - 1)
         IN E \cup {Expr("Export", "", <<e>>) : e \in E}
              \cup {Expr("Block", "", <<Expr("List", "", Append(pre0, e))>>) :
                      pre0 \in ListPrefixes, e \in E}

Trees == {Expr("AST", "", Append(pre0, e)) : pre0 \in ListPrefixes, e \in Exprs(MaxDepth)}

(***************************************************************************)
(* Source texts                                                            *)
(***************************************************************************)
\* the longest text drawn byte by byte
MaxLen == 4

\* the most lexemes of a text drawn lexeme by lexeme
MaxToks == 3

\* the deepest Token::peek(stream, n)
MaxPeek == 1

\* all texts of at most n bytes over an alphabet
Texts(alphabet, n) == UNION {[1..k -> alphabet] : k \in 0..n}

RECURSIVE Concat(_)
\* the text of a sequence of lexemes
Concat(parts) == IF parts = <<>> THEN <<>> ELSE Head(parts) \o Concat(Tail(parts))

CommentAlphabet == {"/", "*", " ", "\n", "1"}

StringAlphabet == {"\"", "\\", "q", "n", " "}

TokenAlphabet == {";", "}", ",", " ", "a", "#"}

\* the texts of the scenarios on comments and escapes
\*   /* a */ 1      /* a /* */ 1      "\q"
ScenarioTexts ==
    { <<"/","*"," ","a"," ","*","/"," ","1">>,
      <<"/","*"," ","a"," ","/","*"," ","*","/"," ","1">>,
      <<"\"","\\","q","\"">> }

LexTexts ==
    Texts(CommentAlphabet, MaxLen) \cup Texts(StringAlphabet, MaxLen)
        \cup Texts(TokenAlphabet, MaxLen) \cup ScenarioTexts

\* lexemes of which short programs are drawn
Lexemes ==
    { <<" ">>, <<"1">>, <<"a">>, <<";">>, <<"{">>, <<"}">>, <<"#">>,
      KEYWORDS.Export, KEYWORDS.Return, <<"@">> }

\* complete programs, of which every window of consecutive lexemes is drawn
\*   import { a , b , } from "x" ;
\*   import * from "x" ; 1
\*   { a ; 1 } return a from a ;
\*   @ ! debug ( "e" ) ; @ a ( 1 )
\*   export { return ; } - ( 1 + a ) ; /**/
Programs ==
    { << KEYWORDS.Import, <<"{">>, <<" ">>, <<"a">>, <<",">>, <<"a">>, <<",">>,
         <<"}">>, KEYWORDS.From, <<"\"","x","\"">>, <<";">> >>,
      << KEYWORDS.Import, <<"*">>, KEYWORDS.From, <<"\"","x","\"">>, <<";">>,
         <<"1">> >>,
      << <<"{">>, <<"a">>, <<";">>, <<"1">>, <<"}">>, KEYWORDS.Return, <<" ">>,
         <<"a">>, <<" ">>, KEYWORDS.From, <<" ">>, <<"a">>, <<";">> >>,
      << <<"@">>, <<"!">>, <<"d","e","b","u","g">>, <<"(">>, <<"\"","e","\"">>,
         <<")">>, <<";">>, <<"@">>, <<"a">>, <<"(">>, <<"1">>, <<")">> >>,
      << KEYWORDS.Export, <<"{">>, KEYWORDS.Return, <<";">>, <<"}">>, <<"-">>,
         <<"(">>, <<"1">>, <<"+">>, <<"a">>, <<")">>, <<";">>,
         <<"/","*","*","/">> >> }

Windows(p) == {SubSeq(p, i, j) : i \in 1..Len(p), j \in 1..Len(p)}

ParseTexts ==
    {Concat(parts) : parts \in UNION {[1..k -> Lexemes] : k \in 0..MaxToks}}
        \cup {Concat(w) : w \in UNION {Windows(p) : p \in Programs}}

(***************************************************************************)
(* The state machine: a Stream over a text, and the operations called on   *)
(* it one after another.                                                   *)
(***************************************************************************)
NoArgs == [n |-> 0, separator |-> "", bracket |-> ""]

\* what a call returned, without the stream
Returned(r) == [ok |-> r.ok, tok |-> r.tok, val |-> r.val, node |-> r.node]

\* the operations a caller goes on from: the stream is next read where
\* Token::pull left it
StepOps == {"init", "tokenToString", "Token::pull"}

\* the operations that read the last-token memo, which Token::peek changes
\* while it leaves the offset: they are also called where a peek left the
\* stream
MemoReaders == {"Token::pullSemicolons"}

\* an operation is called on the stream
Call(name, a, r) ==
    /\ op \in StepOps \/ (op = "Token::peek" /\ name \in MemoReaders)
    /\ op' = name
    /\ args' = a
    /\ pre' = stream
    /\ stream' = r.st
    /\ ret' = Returned(r)
    /\ UNCHANGED <<src, given, unit, heap>>

DoSkipToNext ==
    Call("Token::skipToNext", NoArgs,
         Result(TRUE, NoToken, FALSE, NoNode,
                [stream EXCEPT !.off = skipToNext(src, stream.off)]))

DoTokenPull == Call("Token::pull", NoArgs, TokenPull(src, stream))

DoTokenPeek ==
    \E n \in 0..MaxPeek :
        Call("Token::peek", [NoArgs EXCEPT !.n = n], TokenPeek(src, stream, n))

DoPullSemicolons ==
    Call("Token::pullSemicolons", NoArgs, pullSemicolons(src, stream))

\* the separators and the closing bracket pullSeparator is called with
Separators == {",", ";"}

Brackets == {"}"}

DoPullSeparator ==
    \E separator \in Separators, bracket \in Brackets :
        Call("Token::pullSeparator",
             [NoArgs EXCEPT !.separator = separator, !.bracket = bracket],
             pullSeparator(src, stream, separator, bracket))

DoASTPull == Call("AST::pull", NoArgs, ASTPull(src, stream))

DoImportExprPull == Call("ImportExpr::pull", NoArgs, ImportExprPull(src, stream))

DoListExprPull == Call("ListExpr::pull", NoArgs, ListExprPull(src, stream))

DoBlockExprPull == Call("BlockExpr::pull", NoArgs, BlockExprPull(src, stream))

DoAttrExprPull == Call("AttrExpr::pull", NoArgs, AttrExprPull(src, stream))

DoDebugExprPull == Call("DebugExpr::pull", NoArgs, DebugExprPull(src, stream))

DoReturnExprPull == Call("ReturnExpr::pull", NoArgs, ReturnExprPull(src, stream))

DoExportExprPull == Call("ExportExpr::pull", NoArgs, ExportExprPull(src, stream))

LexNext ==
    \/ DoSkipToNext
    \/ DoTokenPull
    \/ DoTokenPeek
    \/ DoPullSemicolons
    \/ DoPullSeparator

ParseNext ==
    \/ DoTokenPull
    \/ DoASTPull
    \/ DoImportExprPull
    \/ DoListExprPull
    \/ DoBlockExprPull
    \/ DoAttrExprPull
    \/ DoDebugExprPull
    \/ DoReturnExprPull
    \/ DoExportExprPull

\* a Stream at the start of a text; no token given, nothing typechecked
InitOn(texts) ==
    /\ src \in texts
    /\ stream = NewStream
    /\ op = "init"
    /\ args = NoArgs
    /\ pre = NewStream
    /\ ret = Returned(Err(NewStream))
    /\ given = NoToken
    /\ unit = NoUnit
    /\ heap = NewHeap

LexInit == InitOn(LexTexts)

ParseInit == InitOn(ParseTexts)

\* the tokenizer on texts drawn byte by byte
SpecLex == LexInit /\ [][LexNext]_vars

\* the parsers on texts drawn lexeme by lexeme
SpecParse == ParseInit /\ [][ParseNext]_vars

(***************************************************************************)
(* Typechecking a tree; stringifying a token and tokenizing its text       *)
(***************************************************************************)
TypecheckInit ==
    /\ src = <<>>
    /\ stream = NewStream
    /\ op = "tree"
    /\ args = NoArgs
    /\ pre = NewStream
    /\ ret = Returned(Err(NewStream))
    /\ given = NoToken
    /\ unit \in {NewUnit(ast) : ast \in Trees}
    /\ heap = NewHeap

\* UnitParser typechecks the tree of its unit
DoTypecheck ==
    /\ op = "tree"
    /\ op' = "AST::typecheck"
    /\ unit' = Typecheck(unit.ast, unit)
    /\ UNCHANGED <<src, stream, args, pre, ret, given, heap>>

TypecheckNext == DoTypecheck

SpecTypecheck == TypecheckInit /\ [][TypecheckNext]_vars

\* the largest integer literal drawn
MaxInt == 11

IdentTexts ==
    { <<"a">>, <<"q","1">>, <<"t","h","i","s">>, <<"r","o","o","t">>,
      <<"n","u","l","l","s">> }

StrValues ==
    { <<>>, <<"a">>, <<"a"," ","b">>, <<"1">>, <<"\"","x","\"">>, <<"\\">> }

\* the tokens of every variant: all keywords, operators and punctuation
Tokens ==
    {KeywordTok(kw) : kw \in DOMAIN KEYWORDS}
        \cup {IdentTok(id) : id \in IdentTexts}
        \cup {VoidTok, BoolTok(TRUE), BoolTok(FALSE)}
        \cup {IntTok(n) : n \in 0..MaxInt}
        \cup {StrTok(v) : v \in StrValues}
        \cup {OpTok(o) : o \in DOMAIN OPS}
        \cup {PunctTok(c) : c \in PUNCTUATION}

\* the whitespace put around a token's text
Padding == {<<" ">>, <<"\n">>, <<"\t", " ">>}

RoundTripInit ==
    /\ src = <<>>
    /\ stream = NewStream
    /\ op = "token"
    /\ args = NoArgs
    /\ pre = NewStream
    /\ ret = Returned(Err(NewStream))
    /\ given \in Tokens
    /\ unit = NoUnit
    /\ heap = NewHeap

\* the token's text, surrounded by whitespace, becomes the text of a stream
DoTokenToString ==
    /\ op = "token"
    /\ \E lead \in Padding, trail \in Padding :
           src' = lead \o tokenToString(given) \o trail
    /\ op' = "tokenToString"
    /\ UNCHANGED <<stream, args, pre, ret, given, unit, heap>>

RoundTripNext ==
    \/ DoTokenToString
    \/ DoTokenPull

SpecRoundTrip == RoundTripInit /\ [][RoundTripNext]_vars

(***************************************************************************)
(* ImportExpr::typecheck on units that import from a source f: the source  *)
(* exports up to MaxExports entities; the source m is not found.           *)
(***************************************************************************)
\* how many entities the imported source exports
MaxExports == 2

ImportNameSet == {"x", "y"}

\* the exports of a source: entities of any names, the same name twice too
ExportLists ==
    UNION {{[k \in 1..n |-> Ent(names[k], k)] : names \in [1..n -> ImportNameSet]} :
             n \in 0..MaxExports}

ImportOf(path, names) ==
    Expr("Import", path, [k \in DOMAIN names |-> Expr("Ident", names[k], <<>>)])

\* import * from "f", import { x } from "f", import { x, y } from "f",
\* import { x, x } from "f", import * from "m", and a declaration of x
ImportStmts ==
    { ImportOf("f", <<>>), ImportOf("f", <<"x">>), ImportOf("f", <<"x", "y">>),
      ImportOf("f", <<"x", "x">>), ImportOf("m", <<>>), Expr("Decl", "x", <<>>) }

ImportLists == UNION {[1..k -> ImportStmts] : k \in 1..MaxStmts}

\* the statements at the root of the unit, or in a block after a declaration
ImportTrees ==
    {Expr("AST", "", l) : l \in ImportLists}
        \cup {Expr("AST", "",
                   <<Expr("Decl", "x", <<>>),
                     Expr("Block", "", <<Expr("List", "", l)>>)>>) :
                l \in ImportLists}

ImportInit ==
    /\ src = <<>>
    /\ stream = NewStream
    /\ op = "tree"
    /\ args = NoArgs
    /\ pre = NewStream
    /\ ret = Returned(Err(NewStream))
    /\ given = NoToken
    /\ unit \in {[NewUnit(ast) EXCEPT !.files = [path \in {"f"} |-> exported]] :
                   ast \in ImportTrees, exported \in ExportLists}
    /\ heap = NewHeap

\* units that import
SpecImport == ImportInit /\ [][TypecheckNext]_vars

(***************************************************************************)
(* Calls of makeEntity and makeMember, statement by statement.             *)
(***************************************************************************)
\* how many entities are made
MaxEntities == 3

EntityInit ==
    /\ src = <<>>
    /\ stream = NewStream
    /\ op = "init"
    /\ args = NoArgs
    /\ pre = NewStream
    /\ ret = Returned(Err(NewStream))
    /\ given = NoToken
    /\ unit = NoUnit
    /\ heap = NewHeap

\* a statement of the running call is executed
Step(fn, h) ==
    /\ op' = fn
    /\ heap' = h
    /\ UNCHANGED <<src, stream, args, pre, ret, given, unit>>

\* namespace.makeEntity<T>(name) is called and constructs the entity
DoMakeEntity ==
    /\ heap.call = NoCall
    /\ Len(heap.objs) < MaxEntities
    /\ \E self \in NamespaceIds, name \in EntityNames, class \in EntityClasses :
           Step("Namespace::makeEntity",
                make_shared(heap, "Namespace::makeEntity", self, name, class))

\* class.makeMember<T>(name) is called and constructs the entity
DoMakeMember ==
    /\ heap.call = NoCall
    /\ Len(heap.objs) < MaxEntities
    /\ \E self \in ClassIds, name \in EntityNames, class \in EntityClasses :
           Step("Class::makeMember",
                make_shared(heap, "Class::makeMember", self, name, class))

DoApplyTypeDefinition ==
    /\ heap.call # NoCall
    /\ NextStep(heap) = "applyTypeDefinition"
    /\ Step(heap.call.fn, applyTypeDefinition(heap))

DoPushEntity ==
    /\ heap.call # NoCall
    /\ NextStep(heap) = "pushEntity"
    /\ Step(heap.call.fn, pushEntity(heap))

\* return entity;
DoReturnEntity ==
    /\ heap.call # NoCall
    /\ NextStep(heap) = "return"
    /\ Step("returned", [heap EXCEPT !.call = NoCall, !.returned = heap.call])

EntityNext ==
    \/ DoMakeEntity
    \/ DoMakeMember
    \/ DoApplyTypeDefinition
    \/ DoPushEntity
    \/ DoReturnEntity

SpecEntity == EntityInit /\ [][EntityNext]_vars

(***************************************************************************)
(* The tokenizer on runs of operator characters.                           *)
(***************************************************************************)
OperatorAlphabet == {":", "=", "<", ">", "-", "!", "a"}

OperatorInit == InitOn(Texts(OperatorAlphabet, MaxLen))

OperatorNext == DoTokenPull \/ DoTokenPeek

\* the tokenizer on texts of operator characters
SpecOperator == OperatorInit /\ [][OperatorNext]_vars

(***************************************************************************)
(* Properties                                                              *)
(***************************************************************************)
ParserOps ==
    {"AST::pull", "ImportExpr::pull", "ListExpr::pull", "BlockExpr::pull",
     "AttrExpr::pull", "DebugExpr::pull", "ReturnExpr::pull", "ExportExpr::pull"}

\* is tk the next token of the text at stream st
NextIs(st, tk) == PeekTok(src, st, tk).val

\* C1: rollback neutrality. Whenever Token::pull or a parser of AST.cpp
\* returns an error, the stream offset after the call is the offset before it.
C1_RollbackNeutrality ==
    (op \in ParserOps \cup {"Token::pull"} /\ ~ret.ok) => stream.off = pre.off

\* C2: whenever AST::pull succeeds, the stream is at the end of the text.
C2_ASTPullConsumesAll ==
    (op = "AST::pull" /\ ret.ok) => StreamEof(src, stream.off)

RECURSIVE ExportNested(_, _)
\* does the tree e, read inside a block when nested, hold an export inside a
\* block
ExportNested(e, nested) ==
    \/ e.tag = "Export" /\ nested
    \/ \E i \in DOMAIN e.kids : ExportNested(e.kids[i], nested \/ e.tag = "Block")

\* C3: exports are added only at root scope. Every call of addExported is made
\* while isRootScope() is true, and a tree with an export inside a block gets
\* the error that exports may only appear at top-level.
C3_ExportsOnlyAtRoot ==
    op = "AST::typecheck" =>
        /\ \A i \in DOMAIN unit.calls : unit.calls[i].root
        /\ ExportNested(unit.ast, FALSE) =>
               \E i \in DOMAIN unit.errors :
                   unit.errors[i] = "Export statements may only appear at top-level"

RECURSIVE PastLineComment(_, _)
\* the offset after the newline that ends a line comment
PastLineComment(s, o) ==
    IF o >= Len(s) THEN Len(s)
    ELSE IF s[o + 1] = "\n" THEN o + 1 ELSE PastLineComment(s, o + 1)

RECURSIVE PastBlockComment(_, _)
\* the offset after the first `*/` at or after o
PastBlockComment(s, o) ==
    IF o + 1 >= Len(s) THEN Len(s)
    ELSE IF s[o + 1] = "*" /\ s[o + 2] = "/" THEN o + 2
    ELSE PastBlockComment(s, o + 1)

RECURSIVE FirstTokenByte(_, _)
\* the offset of the first byte at or after o that is neither whitespace nor
\* part of a comment
FirstTokenByte(s, o) ==
    IF StreamPeek(s, o) \in SpaceCh THEN FirstTokenByte(s, o + 1)
    ELSE IF StreamPeekN(s, o, 2) = <<"/", "/">>
    THEN FirstTokenByte(s, PastLineComment(s, o + 2))
    ELSE IF StreamPeekN(s, o, 2) = <<"/", "*">>
    THEN FirstTokenByte(s, PastBlockComment(s, o + 2))
    ELSE o

\* C4: Token::skipToNext leaves the cursor on the first byte that is neither
\* whitespace nor part of a comment, a block comment ending with the first
\* `*/` after its `/*`; the first token of `/* a */ 1` and of `/* a /* */ 1`
\* is Int(1).
C4_SkipToNextSkipsComments ==
    /\ op = "Token::skipToNext" => stream.off = FirstTokenByte(src, pre.off)
    /\ (op = "Token::pull" /\ pre.off = 0
          /\ src \in { <<"/","*"," ","a"," ","*","/"," ","1">>,
                       <<"/","*"," ","a"," ","/","*"," ","*","/"," ","1">> })
         => (ret.ok /\ ret.tok = IntTok(1))

RECURSIVE StringCloses(_, _)
\* is there an unescaped closing quote at or after o, inside a string literal
StringCloses(s, o) ==
    IF o >= Len(s) THEN FALSE
    ELSE IF s[o + 1] = "\\" THEN o + 1 < Len(s) /\ StringCloses(s, o + 2)
    ELSE IF s[o + 1] = "\"" THEN TRUE
    ELSE StringCloses(s, o + 1)

\* Token::pull was called with a string literal as the next token
PulledAtQuote ==
    /\ op = "Token::pull"
    /\ StreamPeek(src, skipToNext(src, pre.off)) = "\""

\* the offset after the opening quote of that literal
AfterQuote == skipToNext(src, pre.off) + 1

\* C5: an unterminated string literal is a hard error. When the next token
\* starts with a quote and the text ends before an unescaped closing quote,
\* Token::pull returns an error and no string token.
C5_UnterminatedStringIsError ==
    (PulledAtQuote /\ ~StringCloses(src, AfterQuote)) =>
        (~ret.ok /\ ret.tok = NoToken)

RECURSIVE LiteralValue(_, _)
\* the value of the string literal whose bytes start at o, an unknown escape
\* \c standing for c
LiteralValue(s, o) ==
    IF o >= Len(s) \/ s[o + 1] = "\"" THEN <<>>
    ELSE IF s[o + 1] = "\\"
    THEN IF o + 1 >= Len(s) THEN <<>>
         ELSE (IF KnownEscape(s[o + 2]) THEN EscapeValue(s[o + 2]) ELSE <<s[o + 2]>>)
                  \o LiteralValue(s, o + 2)
    ELSE <<s[o + 1]>> \o LiteralValue(s, o + 1)

RECURSIVE UnknownEscapes(_, _)
\* how many unknown escapes that literal holds
UnknownEscapes(s, o) ==
    IF o >= Len(s) \/ s[o + 1] = "\"" THEN 0
    ELSE IF s[o + 1] = "\\"
    THEN IF o + 1 >= Len(s) THEN 0
         ELSE (IF KnownEscape(s[o + 2]) THEN 0 ELSE 1) + UnknownEscapes(s, o + 2)
    ELSE UnknownEscapes(s, o + 1)

\* C6: for an unknown escape \c in a string literal Token::pull emits a warning
\* and drops only the backslash, keeping c in the value: "\q" is the string q.
C6_UnknownEscapeKeepsChar ==
    (PulledAtQuote /\ StringCloses(src, AfterQuote)) =>
        /\ ret.ok
        /\ ret.tok = StrTok(LiteralValue(src, AfterQuote))
        /\ stream.warns = pre.warns + UnknownEscapes(src, AfterQuote)

\* the first Token::pull on the text of the given token
Retokenized == op = "Token::pull" /\ pre.off = 0 /\ given # NoToken

Producible(tk) ==
    \/ tk.kind = "Keyword" /\ tk.sub \in DOMAIN KEYWORDS \ {"True", "False"}
    \/ tk.kind = "Ident" /\ isIdent(tk.str) /\ tk.str # <<"v","o","i","d">>
    \/ tk.kind = "Lit" /\ tk.sub \in {"Void", "Bool", "Int"}
    \/ tk.kind = "Op" /\ tk.sub \in DOMAIN OPS
    \/ tk.kind = "Punct" /\ tk.str[1] \in PUNCTUATION

C9_PullSemicolons ==
    op = "Token::pullSemicolons" =>
        /\ ret.ok <=> (pre.last = PunctTok("}") \/ NextIs(pre, PunctTok(";")))
        /\ ret.ok => ~NextIs(stream, PunctTok(";"))
        /\ ~ret.ok => stream.off = pre.off

\* Token::pullSemicolons succeeded after `}` with a token other than `;` next
C9_OptionalAfterBrace ==
    /\ op = "Token::pullSemicolons"
    /\ ret.ok
    /\ pre.last = PunctTok("}")
    /\ stream.off = pre.off
    /\ TokenPeek(src, pre, 0).ok

\* C10: Token::pullSeparator. With the bracket next it returns true and
\* consumes nothing; else with the separator next it consumes that one token
\* and returns whether the bracket is next then; else it returns an error and
\* the offset is unchanged. The bracket itself is never consumed.
C10_PullSeparator ==
    op = "Token::pullSeparator" =>
        /\ NextIs(pre, PunctTok(args.bracket)) =>
               (ret.ok /\ ret.val /\ stream.off = pre.off)
        /\ (~NextIs(pre, PunctTok(args.bracket))
              /\ NextIs(pre, PunctTok(args.separator))) =>
               /\ ret.ok
               /\ stream.off = TokenPull(src, pre).st.off
               /\ ret.val <=> NextIs(stream, PunctTok(args.bracket))
        /\ (~NextIs(pre, PunctTok(args.bracket))
              /\ ~NextIs(pre, PunctTok(args.separator))) =>
               (~ret.ok /\ stream.off = pre.off)
        /\ (ret.ok /\ ret.val) => NextIs(stream, PunctTok(args.bracket))

\* a trailing separator: Token::pullSeparator consumed the separator and found
\* the bracket next
C10_TrailingSeparator ==
    /\ op = "Token::pullSeparator"
    /\ ret.ok
    /\ ret.val
    /\ stream.off > pre.off

RECURSIVE MaximalRun(_, _)
\* the maximal run of operator characters that starts at offset o
MaximalRun(s, o) ==
    IF o < Len(s) /\ s[o + 1] \in VALID_OP_CHARS
    THEN <<s[o + 1]>> \o MaximalRun(s, o + 1)
    ELSE <<>>

\* Token::pull was called with the cursor on an operator character
PulledAtOperator ==
    /\ op = "Token::pull"
    /\ pre.off < Len(src)
    /\ src[pre.off + 1] \in VALID_OP_CHARS
    /\ skipToNext(src, pre.off) = pre.off

\* the run at the cursor is a spelling of the operator table
RunIsOperator == \E o \in DOMAIN OPS : OPS[o] = MaximalRun(src, pre.off)

\* Token::pull returned the operator the whole run spells, the cursor past it
ReturnedRunOperator ==
    /\ ret.ok
    /\ ret.tok.kind = "Op"
    /\ OPS[ret.tok.sub] = MaximalRun(src, pre.off)
    /\ stream.off = pre.off + Len(MaximalRun(src, pre.off))

\* Token::pull returned an error, no token, the cursor where it was
ReturnedRunError == ~ret.ok /\ ret.tok = NoToken /\ stream.off = pre.off

ImportAllText ==
    Concat(<< KEYWORDS.Import, <<"*">>, KEYWORDS.From, <<"\"", "x", "\"">> >>)

\* does the text s begin with the text prefix
StartsWith(s, prefix) ==
    Len(s) >= Len(prefix) /\ SubSeq(s, 1, Len(prefix)) = prefix

\* C12: ImportExpr::pull accepts the import-all form. On `import * from "x"`
\* it succeeds with an ImportExpr of the path x whose list of imported names is
\* empty, the cursor past the string literal.
C12_ImportAllParses ==
    (op = "ImportExpr::pull" /\ pre.off = 0 /\ StartsWith(src, ImportAllText)) =>
        /\ ret.ok
        /\ ret.node = Node("Import", <<"x">>, <<>>)
        /\ stream.off = Len(ImportAllText)

\* how many entities of the scope have the name
Named(scope, name) == Cardinality({i \in DOMAIN scope : scope[i].name = name})

\* the entities an import appended to the current scope
Pushed(imp) == SubSeq(imp.after, Len(imp.before) + 1, Len(imp.after))

\* is the k-th selected entity the first selected one of its name
FirstOfName(imp, k) ==
    \A j \in 1..(k - 1) : imp.selected[j].name # imp.selected[k].name

\* the selected entities with no entity of their name in the scope at their
\* turn: the name is not in the scope before the import, nor selected earlier
Free(imp) ==
    {k \in DOMAIN imp.selected :
        Named(imp.before, imp.selected[k].name) = 0 /\ FirstOfName(imp, k)}

\* C13: ImportExpr::typecheck pushes a selected entity into the current scope
\* iff no entity of its name is in that scope at that moment, and else reports
\* an error, leaves the scope as it is and goes on. No import replaces an
\* entity or leaves two entities of one name in the current scope.
C13_ImportCollisionCheck ==
    op = "AST::typecheck" =>
        \A n \in DOMAIN unit.imported :
            LET imp == unit.imported[n] IN
            /\ SubSeq(imp.after, 1, Len(imp.before)) = imp.before
            /\ Len(Pushed(imp)) = Cardinality(Free(imp))
            /\ \A k \in Free(imp) :
                   \E i \in DOMAIN Pushed(imp) : Pushed(imp)[i] = imp.selected[k]
            /\ Len(imp.errors) = Len(imp.selected) - Len(Pushed(imp))
            /\ \A i \in DOMAIN imp.errors : imp.errors[i] = AlreadyExists
            /\ \A name \in ImportNameSet :
                   Named(imp.after, name) <= 1

\* an import of two exports of one name into a scope that has none of it: the
\* first was pushed, the second refused
C13_SameNameExportedTwice ==
    /\ op = "AST::typecheck"
    /\ \E n \in DOMAIN unit.imported :
           /\ unit.imported[n].before = <<>>
           /\ unit.imported[n].selected = <<Ent("x", 1), Ent("x", 2)>>
           /\ unit.imported[n].after = <<Ent("x", 1)>>
           /\ unit.imported[n].errors = <<AlreadyExists>>

\* how often applyTypeDefinition ran on the entity
HookRuns(entity) ==
    Cardinality({i \in DOMAIN heap.hooks : heap.hooks[i].entity = entity})

\* C14: Namespace::makeEntity constructs the entity with this namespace as
\* container, calls applyTypeDefinition, then inserts: while the hook runs the
\* entity is not in the namespace's map, and when makeEntity returns the entity
\* is the last of the list of its name and its namespace is the one it is
\* in. Class::makeMember constructs and inserts and never calls the hook.
C14_MakeEntityOrder ==
    /\ \A i \in DOMAIN heap.hooks :
           ~heap.hooks[i].present /\ heap.hooks[i].fn = "Namespace::makeEntity"
    /\ \A ns \in NamespaceIds, e \in DOMAIN heap.objs :
           InNamespace(heap, ns, e) => heap.objs[e].m_namespace = ns
    /\ (heap.call # NoCall /\ NextStep(heap) = "pushEntity") =>
           /\ ~InNamespace(heap, heap.call.self, heap.call.entity)
           /\ HookRuns(heap.call.entity) =
                  IF heap.call.fn = "Namespace::makeEntity" THEN 1 ELSE 0
    /\ op = "returned" =>
           LET list == heap.m_entities[heap.returned.self][heap.returned.name] IN
           /\ list # <<>>
           /\ list[Len(list)] = heap.returned.entity
           /\ heap.objs[heap.returned.entity].m_namespace = heap.returned.self
           /\ heap.objs[heap.returned.entity].m_name = heap.returned.name
           /\ HookRuns(heap.returned.entity) =
                  IF heap.returned.fn = "Namespace::makeEntity" THEN 1 ELSE 0

\* makeEntity returned a Class made under a name the namespace already had an
\* entity of: it is the second of the list and its hook has run
C14_SecondOfName ==
    /\ op = "returned"
    /\ heap.returned.fn = "Namespace::makeEntity"
    /\ heap.objs[heap.returned.entity].class = "Class"
    /\ Len(heap.m_entities[heap.returned.self][heap.returned.name]) = 2
    /\ HookRuns(heap.returned.entity) = 1
    /\ <<heap.returned.self, heap.returned.name>> \in heap.types

\* C15: scope-stack balance. BlockExpr::typecheck pushes one scope, typechecks
\* its statement list inside it and pops it: for every typecheck of an
\* expression, blocks in blocks and blocks with type errors too, the depth of
\* the scope stack at its return is the depth at its call, and isRootScope()
\* is what it was.
C15_ScopeStackBalance ==
    op = "AST::typecheck" =>
        /\ Len(unit.scopes) = 1
        /\ \A i \in DOMAIN unit.visits :
               /\ unit.visits[i].after = unit.visits[i].before
               /\ unit.visits[i].tag = "Block" =>
                      /\ i > 1
                      /\ unit.visits[i - 1].tag = "List"
                      /\ unit.visits[i - 1].before = unit.visits[i].before + 1

\* a block inside a block was typechecked and a type error was reported in it
C15_NestedBlockWithError ==
    /\ op = "AST::typecheck"
    /\ \E i \in DOMAIN unit.visits :
           /\ unit.visits[i].tag = "Block"
           /\ unit.visits[i].before = 2
           /\ unit.visits[i].after = 2
    /\ unit.errors # <<>>
    /\ Len(unit.scopes) = 1

====
